---- MODULE Spec2Model ----
(***************************************************************************)
(* Poem Studio: the seven request handlers of src/actions/index.ts over    *)
(* the two tables of the schema (PoemCollections, Poems).                  *)
(*                                                                         *)
(* A table is the sequence of its rows in insertion order.  Every database *)
(* statement is one atomic step.  A handler runs synchronously up to an    *)
(* await: it builds its next statement there, reading the clock where the  *)
(* statement holds `new Date()`, and the store executes the statement in a *)
(* later step.  When the store has executed a lookup, the handler resumes  *)
(* in a later step again, and only then reads the clock for the statement  *)
(* it builds next.  The requests whose handler is suspended at an await    *)
(* are kept in the bag `inflight` (with the date read for a statement that *)
(* is built and not yet executed), so that time and the statements of      *)
(* other callers pass between any two of these steps.  `last` records the  *)
(* step that was taken last: which handler, for which request, and the     *)
(* response the caller got (or Awaiting, when the handler is suspended at  *)
(* an await).                                                              *)
(*                                                                         *)
(* An input object is a record that has exactly the fields the caller      *)
(* supplied: `f \in DOMAIN input` is the code's `input.f !== undefined`.   *)
(***************************************************************************)
EXTENDS Integers, Sequences, FiniteSets, Bags, TLC

VARIABLES PoemCollections, Poems, collectionUuids, poemUuids, now,
          foreignKeys, requests, inflight, last

vars == <<PoemCollections, Poems, collectionUuids, poemUuids, now,
          foreignKeys, requests, inflight, last>>

store == <<PoemCollections, Poems>>

-----------------------------------------------------------------------------
(* Bounds of the model.                                                    *)

MaxRequests == 3

MaxCollections == 2

MaxPoems == 2

MaxClock == 1

-----------------------------------------------------------------------------
(* Values.                                                                 *)

Users == {"u1", "u2"}

\* SQL NULL in an optional text column; no caller-supplied string equals it.
Null == "<null>"

\* JavaScript undefined, for the first element of an empty result array.
Undefined == <<>>

\* crypto.randomUUID(): the n-th identity issued for a table.
randomUUID(table, n) == table \o ToString(n)

\* context.locals: with a signed-in user, or without one.
Locals == {<<>>} \cup {[user |-> [id |-> u]] : u \in Users}

\* Strings a caller can supply where a collection id is expected: the empty
\* string and every identity the table can ever issue (issued or not yet).
SuppliedCollectionIds ==
    {""} \cup {randomUUID("c", n) : n \in 1..MaxCollections}

SuppliedPoemIds ==
    {""} \cup {randomUUID("p", n) : n \in 1..MaxPoems}

\* A JavaScript string used as a condition: `if (s)`.
Truthy(s) == Len(s) > 0

Has(input, f) == f \in DOMAIN input

Range(seq) == {seq[i] : i \in DOMAIN seq}

First(rows) == IF rows = <<>> THEN Undefined ELSE rows[1]

-----------------------------------------------------------------------------
(* Responses.                                                              *)

Success(data) == [success |-> TRUE, data |-> data]

Deleted == [success |-> TRUE]

Unauthorized ==
    [success |-> FALSE, code |-> "UNAUTHORIZED",
     message |-> "You must be signed in to perform this action."]

CollectionNotFound ==
    [success |-> FALSE, code |-> "NOT_FOUND", message |-> "Collection not found."]

PoemNotFound ==
    [success |-> FALSE, code |-> "NOT_FOUND", message |-> "Poem not found."]

\* The action's input schema rejected the input; the handler did not run.
InputError ==
    [success |-> FALSE, code |-> "BAD_REQUEST", message |-> "Failed to validate"]

\* An error of the storage layer, not caught by the handler.
StorageError ==
    [success |-> FALSE, code |-> "INTERNAL_SERVER_ERROR", message |-> "storage"]

\* The handler is suspended at an await: the caller has no response yet.
Awaiting == [success |-> FALSE, code |-> "AWAITING", message |-> ""]

-----------------------------------------------------------------------------
(* The schema: the rows the handlers insert.                               *)

\* An optional field left out of the input is stored as NULL.
Opt(input, f) == IF Has(input, f) THEN input[f] ELSE Null

\* `input.f ?? false`
OrFalse(input, f) == IF Has(input, f) THEN input[f] ELSE FALSE

CollectionFields == {"name", "description", "icon", "isDefault"}

PoemFields ==
    {"collectionId", "title", "form", "style", "language", "prompt", "body",
     "notes", "isFavorite"}

CollectionValues(input, id, userId, date) ==
    [id |-> id, userId |-> userId, name |-> input.name,
     description |-> Opt(input, "description"), icon |-> Opt(input, "icon"),
     isDefault |-> OrFalse(input, "isDefault"),
     createdAt |-> date, updatedAt |-> date]

PoemValues(input, id, userId, date) ==
    [id |-> id, collectionId |-> Opt(input, "collectionId"), userId |-> userId,
     title |-> Opt(input, "title"), form |-> Opt(input, "form"),
     style |-> Opt(input, "style"), language |-> Opt(input, "language"),
     prompt |-> Opt(input, "prompt"), body |-> input.body,
     notes |-> Opt(input, "notes"), isFavorite |-> OrFalse(input, "isFavorite"),
     createdAt |-> date, updatedAt |-> date]

\* Poems.collectionId references PoemCollections.id: a store that enforces
\* foreign keys refuses a non-NULL collectionId that names no collection.
ForeignKeyHolds(collectionId, collections) ==
    \/ collectionId = Null
    \/ \E i \in DOMAIN collections : collections[i].id = collectionId

-----------------------------------------------------------------------------
(* The input schemas (zod): what passes validation.                        *)

\* z.string().min(1)
Min1(s) == Len(s) >= 1

createCollectionInput(input) == Has(input, "name") /\ Min1(input.name)

updateCollectionInput(input) ==
    /\ Has(input, "id") /\ Min1(input.id)
    /\ Has(input, "name") => Min1(input.name)
    /\ \E f \in CollectionFields : Has(input, f)

createPoemInput(input) == Has(input, "body") /\ Min1(input.body)

updatePoemInput(input) ==
    /\ Has(input, "id") /\ Min1(input.id)
    /\ \E f \in PoemFields : Has(input, f)

deletePoemInput(input) == Has(input, "id") /\ Min1(input.id)

\* favoritesOnly defaults to false.
FavoritesOnly(input) == Has(input, "favoritesOnly") /\ input.favoritesOnly

-----------------------------------------------------------------------------
(* The statements' WHERE clauses and SET objects.                          *)

getOwnedCollectionWhere(c, collectionId, userId) ==
    c.id = collectionId /\ c.userId = userId

updateCollectionWhere(c, input) == c.id = input.id

listCollectionsWhere(c, user) == c.userId = user.id

\* The lookup of updatePoem without its owner condition: any user's poem.
updatePoemExistingWhereAnyOwner(p, input, user) == p.id = input.id

updatePoemExistingWhere(p, input, user) ==
    p.id = input.id /\ p.userId = user.id

updatePoemWhere(p, input) == p.id = input.id

\* The delete of deletePoem without its owner condition.
deletePoemWhereIdOnly(p, input, user) == p.id = input.id

deletePoemWhere(p, input, user) == p.id = input.id /\ p.userId = user.id

\* `if (input?.collectionId)`: the collection filter of listPoems is applied.
listPoemsFiltersCollection(input) ==
    Has(input, "collectionId") /\ Truthy(input.collectionId)

listPoemsWhere(p, input, user) ==
    /\ p.userId = user.id
    /\ listPoemsFiltersCollection(input) => p.collectionId = input.collectionId
    /\ FavoritesOnly(input) => p.isFavorite = TRUE

\* `if (input.collectionId)`: createPoem validates the collection.
createPoemChecksCollection(input) ==
    Has(input, "collectionId") /\ Truthy(input.collectionId)

\* updatePoem testing the collection id as createPoem does: `if (s)`.
updatePoemChecksCollectionTruthy(input) ==
    Has(input, "collectionId") /\ Truthy(input.collectionId)

\* `input.collectionId !== undefined && input.collectionId !== null`
updatePoemChecksCollection(input) ==
    Has(input, "collectionId") /\ input.collectionId # Null

\* A .set() object built as the insert's values are: an omitted field gets
\* its default (NULL, false) instead of being left out.
SetObjectDefaults(input, fields, date) ==
    [f \in fields \cup {"updatedAt"} |->
        IF f = "updatedAt" THEN date
        ELSE IF Has(input, f) THEN input[f]
        ELSE IF f \in {"isDefault", "isFavorite"} THEN FALSE
        ELSE Null]

\* The object given to .set(): the supplied fields, and updatedAt.
SetObject(input, fields, date) ==
    [f \in (fields \cap DOMAIN input) \cup {"updatedAt"} |->
        IF f = "updatedAt" THEN date ELSE input[f]]

\* db.update(table).set(set).where(...): matched holds the rows the WHERE
\* clause selects.
Update(table, matched, set) ==
    [i \in DOMAIN table |->
        IF table[i] \in matched
        THEN [f \in DOMAIN table[i] |->
                 IF f \in DOMAIN set THEN set[f] ELSE table[i][f]]
        ELSE table[i]]

\* db.delete(table).where(...): the rows that stay.
Delete(table, matched) == SelectSeq(table, LAMBDA row : row \notin matched)

-----------------------------------------------------------------------------
(* The two helpers.                                                        *)

\* requireUser falling back to a guest identity instead of throwing.
requireUserOrGuest(locals) ==
    IF Has(locals, "user")
    THEN [ok |-> TRUE, user |-> locals.user]
    ELSE [ok |-> TRUE, user |-> [id |-> "guest"]]

\* requireUser: the signed-in user, or the UNAUTHORIZED error it throws.
requireUser(locals) ==
    IF Has(locals, "user")
    THEN [ok |-> TRUE, user |-> locals.user]
    ELSE [ok |-> FALSE, error |-> Unauthorized]

\* getOwnedCollection: the collection, or Undefined where the code throws
\* NOT_FOUND.
getOwnedCollection(collectionId, userId) ==
    First(SelectSeq(PoemCollections,
                    LAMBDA c : getOwnedCollectionWhere(c, collectionId, userId)))

-----------------------------------------------------------------------------
(* Requests.                                                               *)

Step(op, locals, input, resp) ==
    [op |-> op, locals |-> locals, input |-> input, resp |-> resp]

Request(op, locals, input, pc) ==
    [op |-> op, locals |-> locals, input |-> input, pc |-> pc]

\* A request whose next statement is built: date is the `new Date()` read
\* while building it.
Built(op, locals, input, pc, date) ==
    [op |-> op, locals |-> locals, input |-> input, pc |-> pc, date |-> date]

Suspended(op, pc) == {r \in BagToSet(inflight) : r.op = op /\ r.pc = pc}

\* The number of handlers of op that are suspended at pc.
Pending(op, pc) ==
    BagCardinality([r \in Suspended(op, pc) |-> CopiesIn(r, inflight)])

\* The handler returns or throws: the caller gets resp.
Respond(op, locals, input, resp) == last' = Step(op, locals, input, resp)

\* The handler awaits its next statement.
Suspend(op, locals, input, pc) ==
    /\ inflight' = inflight (+) SetToBag({Request(op, locals, input, pc)})
    /\ last' = Step(op, locals, input, Awaiting)

\* The handler builds its next statement, reading the clock, and awaits it.
SuspendBuilt(op, locals, input, pc) ==
    /\ inflight' = inflight (+) SetToBag({Built(op, locals, input, pc, now)})
    /\ last' = Step(op, locals, input, Awaiting)

Resume(r) == inflight' = inflight (-) SetToBag({r})

\* The handler of r resumes after its lookup, builds its next statement,
\* reading the clock, and awaits it.
ResumeBuilt(r, pc) ==
    /\ inflight' = (inflight (-) SetToBag({r}))
                     (+) SetToBag({Built(r.op, r.locals, r.input, pc, now)})
    /\ last' = Step(r.op, r.locals, r.input, Awaiting)

\* The inputs the callers send: for each handler, inputs its schema rejects
\* and inputs it accepts, with every supplied id drawn from the SuppliedIds.
CreateCollectionInputs ==
    { [name |-> ""], [name |-> "Nature", description |-> "topics"] }

UpdateCollectionInputs ==
    { [id |-> ""] @@ [name |-> "Odes"],
      [id |-> randomUUID("c", 1)],
      [id |-> randomUUID("c", 1), name |-> ""] }
    \cup {[id |-> c, name |-> "Odes", isDefault |-> TRUE] :
             c \in SuppliedCollectionIds \ {""}}

CreatePoemInputs ==
    { [body |-> ""],
      [body |-> "old pond", title |-> "Frog", form |-> "haiku", style |-> "calm",
       language |-> "en", prompt |-> "pond", notes |-> "draft"] }
    \cup {[body |-> "old pond", collectionId |-> c] : c \in SuppliedCollectionIds}

PoemPatches ==
    { [isFavorite |-> TRUE], [body |-> "", notes |-> "blank"] }
    \cup {[collectionId |-> c, title |-> "Haiku"] : c \in SuppliedCollectionIds}

UpdatePoemInputs ==
    { [id |-> "", isFavorite |-> TRUE], [id |-> randomUUID("p", 1)] }
    \cup {[id |-> p] @@ patch : p \in SuppliedPoemIds \ {""}, patch \in PoemPatches}

DeletePoemInputs == {[id |-> p] : p \in SuppliedPoemIds}

ListPoemsInputs ==
    { <<>>, [favoritesOnly |-> TRUE] }
    \cup {[collectionId |-> c] : c \in SuppliedCollectionIds}

-----------------------------------------------------------------------------
(* The state after deployment: empty tables.                               *)

Init ==
    /\ PoemCollections = <<>>
    /\ Poems = <<>>
    /\ collectionUuids = 0
    /\ poemUuids = 0
    /\ now = 0
    /\ foreignKeys \in BOOLEAN
    /\ requests = 0
    /\ inflight = EmptyBag
    /\ last = Step("deploy", <<>>, <<>>, Awaiting)

\* Time passes, between any two steps of the handlers.
Tick ==
    /\ now < MaxClock
    /\ now' = now + 1
    /\ last' = Step("tick", <<>>, <<>>, Awaiting)
    /\ UNCHANGED <<store, collectionUuids, poemUuids, foreignKeys, requests, inflight>>

-----------------------------------------------------------------------------
(* createCollection: the handler builds the insert, then the store         *)
(* executes it.                                                            *)

createCollection(locals, input) ==
    LET auth == requireUser(locals) IN
    /\ IF ~createCollectionInput(input) THEN
           /\ Respond("createCollection", locals, input, InputError)
           /\ UNCHANGED inflight
       ELSE IF ~auth.ok THEN
           /\ Respond("createCollection", locals, input, auth.error)
           /\ UNCHANGED inflight
       ELSE
           /\ collectionUuids + Pending("createCollection", "insert") < MaxCollections
           /\ SuspendBuilt("createCollection", locals, input, "insert")
    /\ UNCHANGED <<store, collectionUuids, poemUuids, now, foreignKeys>>

createCollectionInsert(r) ==
    LET row == CollectionValues(r.input, randomUUID("c", collectionUuids + 1),
                                requireUser(r.locals).user.id, r.date) IN
    /\ Resume(r)
    /\ collectionUuids' = collectionUuids + 1
    /\ PoemCollections' = Append(PoemCollections, row)
    /\ Respond("createCollection", r.locals, r.input, Success([collection |-> row]))
    /\ UNCHANGED <<Poems, poemUuids, now, foreignKeys>>

-----------------------------------------------------------------------------
(* updateCollection: the ownership lookup, the handler resuming to build   *)
(* the update, then the update statement.                                  *)

updateCollectionLookup(locals, input) ==
    LET auth == requireUser(locals) IN
    /\ IF ~updateCollectionInput(input) THEN
           /\ Respond("updateCollection", locals, input, InputError)
           /\ UNCHANGED inflight
       ELSE IF ~auth.ok THEN
           /\ Respond("updateCollection", locals, input, auth.error)
           /\ UNCHANGED inflight
       ELSE IF getOwnedCollection(input.id, auth.user.id) = Undefined THEN
           /\ Respond("updateCollection", locals, input, CollectionNotFound)
           /\ UNCHANGED inflight
       ELSE
           Suspend("updateCollection", locals, input, "resume")
    /\ UNCHANGED <<store, collectionUuids, poemUuids, now, foreignKeys>>

\* The lookup found the collection: .set({..., updatedAt: new Date()}).
updateCollectionBuild(r) ==
    /\ ResumeBuilt(r, "update")
    /\ UNCHANGED <<store, collectionUuids, poemUuids, now, foreignKeys>>

updateCollectionUpdate(r) ==
    LET set == SetObject(r.input, CollectionFields, r.date)
        updated == Update(PoemCollections,
                          {c \in Range(PoemCollections) :
                              updateCollectionWhere(c, r.input)}, set)
        returning == SelectSeq(updated, LAMBDA c : updateCollectionWhere(c, r.input))
    IN
    /\ Resume(r)
    /\ PoemCollections' = updated
    /\ Respond("updateCollection", r.locals, r.input,
               Success([collection |-> First(returning)]))
    /\ UNCHANGED <<Poems, collectionUuids, poemUuids, now, foreignKeys>>

-----------------------------------------------------------------------------
(* listCollections                                                         *)

listCollections(locals) ==
    LET auth == requireUser(locals) IN
    /\ IF ~auth.ok THEN
           Respond("listCollections", locals, <<>>, auth.error)
       ELSE
           LET collections ==
                   SelectSeq(PoemCollections,
                             LAMBDA c : listCollectionsWhere(c, auth.user))
           IN Respond("listCollections", locals, <<>>,
                      Success([items |-> collections, total |-> Len(collections)]))
    /\ UNCHANGED <<store, collectionUuids, poemUuids, now, foreignKeys, inflight>>

-----------------------------------------------------------------------------
(* createPoem: the ownership lookup when a collection is given, the        *)
(* handler resuming to build the insert, then the insert.                  *)

\* The poems stored and the poems of the createPoem handlers in progress.
PoemsInProgress ==
    poemUuids + Pending("createPoem", "resume") + Pending("createPoem", "insert")

\* const now = new Date(); read while the handler builds the insert.
buildInsertPoem(locals, input) ==
    SuspendBuilt("createPoem", locals, input, "insert")

createPoemLookup(locals, input) ==
    LET auth == requireUser(locals) IN
    /\ IF ~createPoemInput(input) THEN
           /\ Respond("createPoem", locals, input, InputError)
           /\ UNCHANGED inflight
       ELSE IF ~auth.ok THEN
           /\ Respond("createPoem", locals, input, auth.error)
           /\ UNCHANGED inflight
       ELSE IF ~createPoemChecksCollection(input) THEN
           /\ PoemsInProgress < MaxPoems
           /\ buildInsertPoem(locals, input)
       ELSE IF getOwnedCollection(input.collectionId, auth.user.id) = Undefined THEN
           /\ Respond("createPoem", locals, input, CollectionNotFound)
           /\ UNCHANGED inflight
       ELSE
           /\ PoemsInProgress < MaxPoems
           /\ Suspend("createPoem", locals, input, "resume")
    /\ UNCHANGED <<store, collectionUuids, poemUuids, now, foreignKeys>>

\* The lookup found the collection: const now = new Date(), and the insert.
createPoemBuild(r) ==
    /\ ResumeBuilt(r, "insert")
    /\ UNCHANGED <<store, collectionUuids, poemUuids, now, foreignKeys>>

\* db.insert(Poems).values({...}).returning(), executed by the store.
createPoemInsert(r) ==
    LET row == PoemValues(r.input, randomUUID("p", poemUuids + 1),
                          requireUser(r.locals).user.id, r.date) IN
    /\ Resume(r)
    /\ IF foreignKeys /\ ~ForeignKeyHolds(row.collectionId, PoemCollections) THEN
           /\ Respond("createPoem", r.locals, r.input, StorageError)
           /\ UNCHANGED <<Poems, poemUuids>>
       ELSE
           /\ poemUuids' = poemUuids + 1
           /\ Poems' = Append(Poems, row)
           /\ Respond("createPoem", r.locals, r.input, Success([poem |-> row]))
    /\ UNCHANGED <<PoemCollections, collectionUuids, now, foreignKeys>>

-----------------------------------------------------------------------------
(* updatePoem: the lookup of the poem, the ownership lookup of the         *)
(* collection when one is given, the handler resuming to build the update, *)
(* then the update statement.                                              *)

updatePoemExisting(locals, input) ==
    LET auth == requireUser(locals) IN
    /\ IF ~updatePoemInput(input) THEN
           /\ Respond("updatePoem", locals, input, InputError)
           /\ UNCHANGED inflight
       ELSE IF ~auth.ok THEN
           /\ Respond("updatePoem", locals, input, auth.error)
           /\ UNCHANGED inflight
       ELSE IF First(SelectSeq(Poems,
                   LAMBDA p : updatePoemExistingWhere(p, input, auth.user))) = Undefined
       THEN
           /\ Respond("updatePoem", locals, input, PoemNotFound)
           /\ UNCHANGED inflight
       ELSE
           IF updatePoemChecksCollection(input)
           THEN Suspend("updatePoem", locals, input, "collection")
           ELSE Suspend("updatePoem", locals, input, "resume")
    /\ UNCHANGED <<store, collectionUuids, poemUuids, now, foreignKeys>>

updatePoemCollection(r) ==
    /\ IF getOwnedCollection(r.input.collectionId, requireUser(r.locals).user.id)
              = Undefined
       THEN
           /\ Resume(r)
           /\ Respond("updatePoem", r.locals, r.input, CollectionNotFound)
       ELSE
           /\ inflight' = (inflight (-) SetToBag({r}))
                            (+) SetToBag({Request("updatePoem", r.locals, r.input,
                                                  "resume")})
           /\ last' = Step("updatePoem", r.locals, r.input, Awaiting)
    /\ UNCHANGED <<store, collectionUuids, poemUuids, now, foreignKeys>>

\* The lookups are done: .set({..., updatedAt: new Date()}).
updatePoemBuild(r) ==
    /\ ResumeBuilt(r, "update")
    /\ UNCHANGED <<store, collectionUuids, poemUuids, now, foreignKeys>>

updatePoemUpdate(r) ==
    LET set == SetObject(r.input, PoemFields, r.date)
        updated == Update(Poems,
                          {p \in Range(Poems) : updatePoemWhere(p, r.input)}, set)
        returning == SelectSeq(updated, LAMBDA p : updatePoemWhere(p, r.input))
        refused ==
            /\ foreignKeys
            /\ Has(set, "collectionId")
            /\ returning # <<>>
            /\ ~ForeignKeyHolds(set.collectionId, PoemCollections)
    IN
    /\ Resume(r)
    /\ IF refused THEN
           /\ Respond("updatePoem", r.locals, r.input, StorageError)
           /\ UNCHANGED Poems
       ELSE
           /\ Poems' = updated
           /\ Respond("updatePoem", r.locals, r.input,
                      Success([poem |-> First(returning)]))
    /\ UNCHANGED <<PoemCollections, collectionUuids, poemUuids, now, foreignKeys>>

-----------------------------------------------------------------------------
(* deletePoem: one delete statement.                                       *)

deletePoem(locals, input) ==
    LET auth == requireUser(locals) IN
    /\ IF ~deletePoemInput(input) THEN
           /\ Respond("deletePoem", locals, input, InputError)
           /\ UNCHANGED Poems
       ELSE IF ~auth.ok THEN
           /\ Respond("deletePoem", locals, input, auth.error)
           /\ UNCHANGED Poems
       ELSE
           LET remaining ==
                   Delete(Poems, {p \in Range(Poems) :
                                     deletePoemWhere(p, input, auth.user)})
               rowsAffected == Len(Poems) - Len(remaining)
           IN
           /\ Poems' = remaining
           /\ Respond("deletePoem", locals, input,
                      IF rowsAffected = 0 THEN PoemNotFound ELSE Deleted)
    /\ UNCHANGED <<PoemCollections, collectionUuids, poemUuids, now, foreignKeys, inflight>>

-----------------------------------------------------------------------------
(* listPoems: the ownership lookup when a collection is given, then the    *)
(* select.                                                                 *)

selectPoems(locals, input, user) ==
    LET poems == SelectSeq(Poems, LAMBDA p : listPoemsWhere(p, input, user)) IN
    Respond("listPoems", locals, input,
            Success([items |-> poems, total |-> Len(poems)]))

listPoemsLookup(locals, input) ==
    LET auth == requireUser(locals) IN
    /\ IF ~auth.ok THEN
           /\ Respond("listPoems", locals, input, auth.error)
           /\ UNCHANGED inflight
       ELSE IF ~listPoemsFiltersCollection(input) THEN
           /\ selectPoems(locals, input, auth.user)
           /\ UNCHANGED inflight
       ELSE IF getOwnedCollection(input.collectionId, auth.user.id) = Undefined THEN
           /\ Respond("listPoems", locals, input, CollectionNotFound)
           /\ UNCHANGED inflight
       ELSE
           Suspend("listPoems", locals, input, "select")
    /\ UNCHANGED <<store, collectionUuids, poemUuids, now, foreignKeys>>

listPoemsSelect(r) ==
    /\ Resume(r)
    /\ selectPoems(r.locals, r.input, requireUser(r.locals).user)
    /\ UNCHANGED <<store, collectionUuids, poemUuids, now, foreignKeys>>

-----------------------------------------------------------------------------

\* A request arrives and its handler runs up to its first await.
Receive == requests < MaxRequests /\ requests' = requests + 1

CreateCollection ==
    /\ Receive
    /\ \E l \in Locals, i \in CreateCollectionInputs : createCollection(l, i)

CreateCollectionInsert ==
    /\ UNCHANGED requests
    /\ \E r \in Suspended("createCollection", "insert") : createCollectionInsert(r)

UpdateCollectionLookup ==
    /\ Receive
    /\ \E l \in Locals, i \in UpdateCollectionInputs : updateCollectionLookup(l, i)

UpdateCollectionBuild ==
    /\ UNCHANGED requests
    /\ \E r \in Suspended("updateCollection", "resume") : updateCollectionBuild(r)

UpdateCollectionUpdate ==
    /\ UNCHANGED requests
    /\ \E r \in Suspended("updateCollection", "update") : updateCollectionUpdate(r)

ListCollections ==
    /\ Receive
    /\ \E l \in Locals : listCollections(l)

CreatePoemLookup ==
    /\ Receive
    /\ \E l \in Locals, i \in CreatePoemInputs : createPoemLookup(l, i)

CreatePoemBuild ==
    /\ UNCHANGED requests
    /\ \E r \in Suspended("createPoem", "resume") : createPoemBuild(r)

CreatePoemInsert ==
    /\ UNCHANGED requests
    /\ \E r \in Suspended("createPoem", "insert") : createPoemInsert(r)

UpdatePoemExisting ==
    /\ Receive
    /\ \E l \in Locals, i \in UpdatePoemInputs : updatePoemExisting(l, i)

UpdatePoemCollection ==
    /\ UNCHANGED requests
    /\ \E r \in Suspended("updatePoem", "collection") : updatePoemCollection(r)

UpdatePoemBuild ==
    /\ UNCHANGED requests
    /\ \E r \in Suspended("updatePoem", "resume") : updatePoemBuild(r)

UpdatePoemUpdate ==
    /\ UNCHANGED requests
    /\ \E r \in Suspended("updatePoem", "update") : updatePoemUpdate(r)

DeletePoem ==
    /\ Receive
    /\ \E l \in Locals, i \in DeletePoemInputs : deletePoem(l, i)

ListPoemsLookup ==
    /\ Receive
    /\ \E l \in Locals, i \in ListPoemsInputs : listPoemsLookup(l, i)

ListPoemsSelect ==
    /\ UNCHANGED requests
    /\ \E r \in Suspended("listPoems", "select") : listPoemsSelect(r)

Next ==
    \/ Tick
    \/ CreateCollection
    \/ CreateCollectionInsert
    \/ UpdateCollectionLookup
    \/ UpdateCollectionBuild
    \/ UpdateCollectionUpdate
    \/ ListCollections
    \/ CreatePoemLookup
    \/ CreatePoemBuild
    \/ CreatePoemInsert
    \/ UpdatePoemExisting
    \/ UpdatePoemCollection
    \/ UpdatePoemBuild
    \/ UpdatePoemUpdate
    \/ DeletePoem
    \/ ListPoemsLookup
    \/ ListPoemsSelect

Spec == Init /\ [][Next]_vars

-----------------------------------------------------------------------------
(* What the claims speak of.                                               *)

Handlers ==
    {"createCollection", "updateCollection", "listCollections", "createPoem",
     "updatePoem", "deletePoem", "listPoems"}

\* The step was taken for a request of signed-in user u.
CallerIs(step, u) == Has(step.locals, "user") /\ step.locals.user.id = u

Anonymous(step) == step.op \in Handlers /\ ~Has(step.locals, "user")

\* The request's input passes the input schema of its handler.
PassesSchema(step) ==
    CASE step.op = "createCollection" -> createCollectionInput(step.input)
      [] step.op = "updateCollection" -> updateCollectionInput(step.input)
      [] step.op = "createPoem" -> createPoemInput(step.input)
      [] step.op = "updatePoem" -> updatePoemInput(step.input)
      [] step.op = "deletePoem" -> deletePoemInput(step.input)
      [] OTHER -> TRUE

\* User u owns a collection whose id is collectionId.
Owns(u, collectionId, collections) ==
    \E c \in Range(collections) : c.id = collectionId /\ c.userId = u

OwnsAsCaller(step, collectionId, collections) ==
    \E u \in Users : CallerIs(step, u) /\ Owns(u, collectionId, collections)

\* C1: a step taken for caller A leaves every row of another user in place
\* and unchanged, and no row's userId changes.
C1_OnlyOwnerModifies ==
    [][ /\ \A p \in Range(Poems) :
              ~CallerIs(last', p.userId) => p \in Range(Poems')
        /\ \A c \in Range(PoemCollections) :
              ~CallerIs(last', c.userId) => c \in Range(PoemCollections')
        /\ \A p \in Range(Poems), q \in Range(Poems') :
              p.id = q.id => p.userId = q.userId
        /\ \A c \in Range(PoemCollections), d \in Range(PoemCollections') :
              c.id = d.id => c.userId = d.userId ]_vars

\* C1: a caller's updatePoem named the poem of another user, was refused, and
\* the poem is stored.
C1_Witness ==
    /\ last.op = "updatePoem"
    /\ last.resp = PoemNotFound
    /\ \E p \in Range(Poems), u \in Users :
          p.id = last.input.id /\ CallerIs(last, u) /\ p.userId # u

\* C2: every stored poem with a non-NULL collectionId names a stored
\* collection of the poem's own user.
C2_CollectionOfSameUser ==
    \A p \in Range(Poems) :
        p.collectionId # Null => Owns(p.userId, p.collectionId, PoemCollections)

\* C3: every stored poem has a non-empty body.
C3_BodyNonEmpty == \A p \in Range(Poems) : p.body # ""

\* C4: listPoems with a supplied collectionId that names no collection of the
\* caller answers NOT_FOUND.
C4_ListPoemsUnownedNotFound ==
    ( /\ last.op = "listPoems"
      /\ Has(last.locals, "user")
      /\ Has(last.input, "collectionId")
      /\ ~OwnsAsCaller(last, last.input.collectionId, PoemCollections) )
    => last.resp = CollectionNotFound

\* C5: when updatePoem, having found the caller's poem, looks up a supplied
\* collectionId that names no collection of the caller, the call fails with
\* NOT_FOUND "Collection not found." and both tables are unchanged; and no
\* step of an updatePoem with a supplied collectionId succeeds or writes
\* unless the caller owns that collection.
C5_UnownedCollectionLeavesPoem ==
    [][ /\ \A r \in Suspended("updatePoem", "collection") :
              ( /\ CopiesIn(r, inflight') < CopiesIn(r, inflight)
                /\ ~OwnsAsCaller(r, r.input.collectionId, PoemCollections) )
              => /\ last' = Step("updatePoem", r.locals, r.input, CollectionNotFound)
                 /\ store' = store
                 /\ inflight' = inflight (-) SetToBag({r})
        /\ ( /\ last'.op = "updatePoem"
             /\ Has(last'.input, "collectionId")
             /\ ~OwnsAsCaller(last', last'.input.collectionId, PoemCollections) )
           => /\ ~last'.resp.success
              /\ store' = store ]_vars

\* C5: updatePoem of the caller's own poem with a collection of another user
\* and a new title was refused, and the poem keeps its title.
C5_Witness ==
    /\ last.op = "updatePoem"
    /\ last.resp = CollectionNotFound
    /\ Has(last.input, "title")
    /\ \E c \in Range(PoemCollections) :
          c.id = last.input.collectionId /\ ~CallerIs(last, c.userId)
    /\ \E p \in Range(Poems) :
          /\ p.id = last.input.id
          /\ CallerIs(last, p.userId)
          /\ p.title # last.input.title

\* C6: deletePoem by a signed-in caller on an id that names no poem of the
\* caller (no poem at all, or a poem of another user) answers the one error
\* NOT_FOUND "Poem not found." and changes nothing; a row it removes has the
\* requested id and the caller's userId.
C6_DeleteIndistinguishable ==
    [][ ( /\ last'.op = "deletePoem"
          /\ Has(last'.locals, "user")
          /\ deletePoemInput(last'.input) )
        => LET mine == {p \in Range(Poems) :
                           p.id = last'.input.id /\ CallerIs(last', p.userId)}
           IN /\ mine = {} => (last'.resp = PoemNotFound /\ store' = store)
              /\ mine # {} => last'.resp = Deleted
              /\ Range(Poems') = Range(Poems) \ mine
              /\ PoemCollections' = PoemCollections ]_vars

\* C6: deletePoem on the poem of another user was answered NOT_FOUND and the
\* poem is stored.
C6_Witness ==
    /\ last.op = "deletePoem"
    /\ last.resp = PoemNotFound
    /\ \E p \in Range(Poems) : p.id = last.input.id /\ ~CallerIs(last, p.userId)

\* The row new is the row old after a successful update with this input.
Patched(old, new, input, fields, date) ==
    /\ DOMAIN new = DOMAIN old
    /\ \A f \in fields : new[f] = IF Has(input, f) THEN input[f] ELSE old[f]
    /\ new.id = old.id
    /\ new.userId = old.userId
    /\ new.createdAt = old.createdAt
    /\ new.updatedAt = date

PatchedTable(old, new, input, fields, date) ==
    /\ Len(new) = Len(old)
    /\ \A i \in DOMAIN old :
          IF old[i].id = input.id
          THEN Patched(old[i], new[i], input, fields, date)
          ELSE new[i] = old[i]

\* The step executes the update statement that request r built.
Executes(r) == inflight' = inflight (-) SetToBag({r})

\* C7: a successful updateCollection or updatePoem gives the target row the
\* supplied fields, keeps its omitted fields, id, userId and createdAt, sets
\* its updatedAt to the time the handler read for the update, and leaves
\* every other row of both tables as it was.
C7_PartialUpdate ==
    [][ /\ (last'.op = "updateCollection" /\ last'.resp.success)
           => \E r \in Suspended("updateCollection", "update") :
                 /\ r.locals = last'.locals /\ r.input = last'.input
                 /\ Executes(r)
                 /\ r.date <= now
                 /\ PatchedTable(PoemCollections, PoemCollections', r.input,
                                 CollectionFields, r.date)
                 /\ Poems' = Poems
        /\ (last'.op = "updatePoem" /\ last'.resp.success)
           => \E r \in Suspended("updatePoem", "update") :
                 /\ r.locals = last'.locals /\ r.input = last'.input
                 /\ Executes(r)
                 /\ r.date <= now
                 /\ PatchedTable(Poems, Poems', r.input, PoemFields, r.date)
                 /\ PoemCollections' = PoemCollections ]_vars

\* C7: an updatePoem that supplied no title succeeded on a poem that has a
\* title, later than the poem was created, while another poem is stored.
C7_Witness ==
    /\ last.op = "updatePoem"
    /\ last.resp.success
    /\ ~Has(last.input, "title")
    /\ Len(Poems) = 2
    /\ \E p \in Range(Poems) :
          /\ p.id = last.input.id
          /\ p.title = "Frog"
          /\ p.isFavorite
          /\ p.updatedAt > p.createdAt

\* C8: a step taken for a request without a signed-in user writes nothing,
\* suspends nothing and issues no identity; when the input passes the input
\* schema, so that the handler runs, the answer is UNAUTHORIZED.
C8_UnauthorizedFirst ==
    [][ Anonymous(last')
        => /\ store' = store
           /\ inflight' = inflight
           /\ collectionUuids' = collectionUuids
           /\ poemUuids' = poemUuids
           /\ ~last'.resp.success
           /\ PassesSchema(last') => last'.resp = Unauthorized ]_vars

\* C8: an anonymous updatePoem naming a stored poem was answered UNAUTHORIZED.
C8_Witness ==
    /\ Anonymous(last)
    /\ last.op = "updatePoem"
    /\ last.resp = Unauthorized
    /\ \E p \in Range(Poems) : p.id = last.input.id

\* C9: a successful listPoems returns exactly the caller's poems that match
\* the supplied filters, a successful listCollections exactly the caller's
\* collections, each row once, and total is the number of items.
C9_ListsExact ==
    /\ (last.op = "listPoems" /\ last.resp.success)
       => /\ Range(last.resp.data.items) =
                {p \in Range(Poems) :
                    /\ CallerIs(last, p.userId)
                    /\ Has(last.input, "collectionId")
                          => p.collectionId = last.input.collectionId
                    /\ FavoritesOnly(last.input) => p.isFavorite}
          /\ last.resp.data.total = Cardinality(Range(last.resp.data.items))
          /\ last.resp.data.total = Len(last.resp.data.items)
    /\ (last.op = "listCollections" /\ last.resp.success)
       => /\ Range(last.resp.data.items) =
                {c \in Range(PoemCollections) : CallerIs(last, c.userId)}
          /\ last.resp.data.total = Cardinality(Range(last.resp.data.items))
          /\ last.resp.data.total = Len(last.resp.data.items)

\* C10: an updatePoem that answers success carries the updated poem: the row
\* with the requested id, owned by the caller, with the supplied fields.
C10_UpdateReturnsPoem ==
    (last.op = "updatePoem" /\ last.resp.success)
    => /\ last.resp.data.poem # Undefined
       /\ last.resp.data.poem.id = last.input.id
       /\ CallerIs(last, last.resp.data.poem.userId)
       /\ \A f \in PoemFields \cap DOMAIN last.input :
             last.resp.data.poem[f] = last.input[f]

====
